---------------------------- MODULE Spec2Model ----------------------------
(***************************************************************************)
(* Model of the monitoring dashboard: one Chart (script/chart.js) with its *)
(* mutable query and rollback copy, the paginated MonitoringApi.getData    *)
(* (script/monitoring.js), the formatters of ChartDisplay, the in-place    *)
(* reconciliation of the Rickshaw series collection, and the Controller    *)
(* with the authorization, the project form and the refresh interval.      *)
(***************************************************************************)
EXTENDS Integers, Sequences, FiniteSets, TLC

VARIABLES
  query,        \* Chart.query: the active query object
  oldQuery_,    \* Chart.oldQuery_: the rollback copy
  aliased,      \* TRUE when query and oldQuery_ are one and the same object
  data,         \* Chart.data: the last formatted data
  chart_,       \* Chart.chart_: [created, series] (the Rickshaw graph)
  legend,       \* the lines of the rendered legend
  errorElement, \* the notices shown in Chart.errorElement (at most one)
  calls,        \* the getData invocations in flight (one closure each)
  issued,       \* getData invocations made so far
  lastCall,     \* history: the most recent update or reset call
  ev,           \* what the last step did (history of the last handler)
  controller    \* the Controller, its page and the charts_ of ChartDisplay

vars == <<query, oldQuery_, aliased, data, chart_, legend, errorElement,
          calls, issued, lastCall, ev, controller>>

-----------------------------------------------------------------------------
(* Bounds of the model. *)

\* getData invocations that may be in flight at once
MaxInFlight == 2
\* getData invocations made after the constructor's
MaxCalls == 3
\* pages one getData invocation may receive in the chart session model
MaxPages == 2
\* pages one getData invocation may receive in the fetcher model
MaxFetchPages == 3
\* raw series delivered to one success callback in the reconciliation model
MaxNew == 2
\* raw series handed to one call of a formatter in the formatter model
MaxFormat == 3
\* gapi.auth.authorize calls made in the controller model
MaxAuthorize == 3
\* project IDs submitted with the project form in the controller model
MaxSubmits == 2
\* changes of the slider in the controller model
MaxSliderChanges == 2
\* default metrics in one answer of metricDescriptors.list
MaxMetrics == 1

-----------------------------------------------------------------------------
(* Plain helpers. *)

Min(a, b) == IF a < b THEN a ELSE b

SetMax(S) == CHOOSE x \in S : \A y \in S : y <= x

\* an object without fields ({} in the source)
EmptyObj == [k \in {} |-> ""]

\* Array.prototype.reverse, also the effect of unshift-ing every element
Reverse(s) == [i \in 1..Len(s) |-> s[Len(s) + 1 - i]]

\* all sequences over S of length 0..n
SeqUpTo(S, n) == UNION {[1..k -> S] : k \in 0..n}

\* a merge in which the fields of q win over those of d
MergeKeepOld(q, d) ==
  [k \in (DOMAIN q) \cup (DOMAIN d) |-> IF k \in DOMAIN q THEN q[k] ELSE d[k]]

\* $.extend({}, q, d): a new object with the fields of q overwritten by d
Merge(q, d) ==
  [k \in (DOMAIN q) \cup (DOMAIN d) |-> IF k \in DOMAIN d THEN d[k] ELSE q[k]]

\* a delete that leaves the field in place
KeepField(q, k) == q

\* delete q[k]
Delete(q, k) == [x \in (DOMAIN q) \ {k} |-> q[x]]

-----------------------------------------------------------------------------
(* The scalar formatter, ChartDisplay.formatDataSimple_('doubleValue'). *)

\* new Date(end).getTime(): seconds of the RFC 3339 instant to milliseconds
GetTime(end) == end * 1000

\* the n-th colour handed out by a fresh Rickshaw.Color.Palette
PaletteColor(n) == n

SeriesName(ts) ==
  IF ts.resource_type = "instance" THEN ts.instance_name ELSE ts.resource_id

FormatPoint(p) == [x |-> GetTime(p.end), y |-> p.doubleValue]

\* every point is unshift-ed, so the points end up in reverse source order
FormatPoints(points) == Reverse([i \in 1..Len(points) |-> FormatPoint(points[i])])

\* legend = "" stands for a series object without a legend field,
\* disabled = FALSE for one without a disabled field
formatDataSimple_(raw) ==
  [i \in 1..Len(raw) |->
     [name     |-> SeriesName(raw[i]),
      data     |-> FormatPoints(raw[i].points),
      color    |-> PaletteColor(i),
      legend   |-> "",
      disabled |-> FALSE]]

-----------------------------------------------------------------------------
(* The distribution formatter, ChartDisplay.formatDataDistribution_.       *)

\* a label the payload does not have reads as undefined, which string
\* concatenation renders as "undefined"
Undefined == "undefined"

\* parseInt of a string of decimal digits, given as the sequence of its digits
RECURSIVE ParseInt(_)
ParseInt(digits) ==
  IF digits = <<>> THEN 0
  ELSE 10 * ParseInt(SubSeq(digits, 1, Len(digits) - 1)) + digits[Len(digits)]

\* lower + '-' + upper
RangeOf(bucket) ==
  ToString(bucket.lowerBound) \o "-" \o ToString(bucket.upperBound)

\* the instance name for an instance, the resource id otherwise
ResourceName(ts) ==
  IF ts.resource_type = "instance" THEN ts.instance_name ELSE ts.resource_id

\* a key of tempData that leaves the resource out
KeyByRange(ts, range) == range

\* resourceId + ':' + range, the key of tempData
ResourceRange(ts, range) == ts.resource_id \o ":" \o range

\* what the innermost loop body works with for one bucket of point p of ts
BucketEntry(ts, p, bucket) ==
  [key   |-> ResourceRange(ts, RangeOf(bucket)),
   range |-> RangeOf(bucket),
   name  |-> ResourceName(ts) \o ":" \o RangeOf(bucket),
   point |-> [y |-> ParseInt(bucket.count), x |-> GetTime(p.end)]]

\* the buckets of one point, none when it has no distributionValue
PointEntries(ts, p) ==
  IF p.hasDistribution
  THEN [b \in 1..Len(p.buckets) |-> BucketEntry(ts, p, p.buckets[b])]
  ELSE <<>>

RECURSIVE SeriesEntries(_, _)
SeriesEntries(ts, points) ==
  IF points = <<>> THEN <<>>
  ELSE PointEntries(ts, Head(points)) \o SeriesEntries(ts, Tail(points))

\* all buckets in the order the three nested loops visit them
RECURSIVE BucketEntries(_)
BucketEntries(raw) ==
  IF raw = <<>> THEN <<>>
  ELSE SeriesEntries(Head(raw), Head(raw).points) \o BucketEntries(Tail(raw))

\* tempData as the sequence of its fields in insertion order: a new key gets
\* a field, and the point is unshift-ed on the data of the key's field
RECURSIVE FillTempData(_, _)
FillTempData(tempData, entries) ==
  IF entries = <<>> THEN tempData
  ELSE LET e == Head(entries) IN
       FillTempData(
         IF \E k \in 1..Len(tempData) : tempData[k].key = e.key
         THEN [k \in 1..Len(tempData) |->
                 IF tempData[k].key = e.key
                 THEN [tempData[k] EXCEPT !.data = <<e.point>> \o @]
                 ELSE tempData[k]]
         ELSE Append(tempData, [key |-> e.key, data |-> <<e.point>>,
                                range |-> e.range, name |-> e.name]),
         Tail(entries))

\* the keys of colorForRange in insertion order
RECURSIVE RangeKeys(_, _)
RangeKeys(keys, entries) ==
  IF entries = <<>> THEN keys
  ELSE RangeKeys(IF \E i \in 1..Len(keys) : keys[i] = Head(entries).range
                 THEN keys ELSE Append(keys, Head(entries).range),
                 Tail(entries))

\* colorForRange[range]: the palette is asked once per key, in key order
ColorForRange(keys, range) ==
  PaletteColor(CHOOSE i \in 1..Len(keys) : keys[i] = range)

\* a colour per field of tempData
ColorPerSeries(keys, tempData, k) == PaletteColor(k)

\* colorForRange[tempData[resourceRange].range]
SeriesColor(keys, tempData, k) == ColorForRange(keys, tempData[k].range)

formatDataDistribution_(raw) ==
  LET entries  == BucketEntries(raw)
      tempData == FillTempData(<<>>, entries)
      keys     == RangeKeys(<<>>, entries)
  IN [k \in 1..Len(tempData) |->
        [name     |-> tempData[k].name,
         data     |-> tempData[k].data,
         legend   |-> tempData[k].range,
         color    |-> SeriesColor(keys, tempData, k),
         disabled |-> FALSE]]

-----------------------------------------------------------------------------
(* The legend, Chart.createLegend_ with its render and addLine overrides. *)

\* legend.addLine for the series at index i: the swatch colour, the label
\* text, the disabled class, and the series object the line refers to
AddLine(series, i) ==
  [text     |-> IF series[i].legend # "" THEN series[i].legend ELSE series[i].name,
   color    |-> series[i].color,
   disabled |-> series[i].disabled,
   series   |-> i]

\* a render that adds a line for every series
RenderEvery(series, order, labels) ==
  [n \in 1..Len(order) |-> AddLine(series, order[n])]

\* legend.render over the indices in rendering order
RECURSIVE RenderLines(_, _, _)
RenderLines(series, order, labels) ==
  IF order = <<>> THEN <<>>
  ELSE LET s == series[Head(order)] IN
       IF s.legend # ""
       THEN IF s.legend \in labels
            THEN RenderLines(series, Tail(order), labels)
            ELSE <<AddLine(series, Head(order))>>
                 \o RenderLines(series, Tail(order), labels \cup {s.legend})
       ELSE <<AddLine(series, Head(order))>>
            \o RenderLines(series, Tail(order), labels)

\* naturalOrder is not set, so the series are rendered in reverse order
createLegend_(series) ==
  RenderLines(series, Reverse([i \in 1..Len(series) |-> i]), {})

-----------------------------------------------------------------------------
(* Reconciliation of the live series collection, the else branch of the    *)
(* callback in Chart.update_.                                              *)

\* the keys that for-in enumerates on the series array: the indices, then
\* the property "active" that Rickshaw.Graph adds to the array
IndexKey(i) == [active |-> FALSE, idx |-> i]
ActiveKey == [active |-> TRUE, idx |-> 0]

\* the positions of the new data whose name equals that of a live entry
Matches(s, new) == {d \in 1..Len(new) : new[d].name = s.name}

\* first loop, body for an index key: every match assigns the data, so the
\* last match stays
ReplaceData(s, new) ==
  IF Matches(s, new) = {} THEN s
  ELSE [s EXCEPT !.data = new[SetMax(Matches(s, new))].data]

\* first loop, the exists flag of an index key
IndexExists(s, new) == Matches(s, new) # {}

\* first loop, the exists flag of the key "active": it is set in the body
\* of the inner loop, which runs once per entry of the new data
ActiveExists(new) == Len(new) > 0

\* the keys pushed on removeIndices, in enumeration order (0-based indices)
RemoveIndices(series, new) ==
  LET idx == SelectSeq([i \in 1..Len(series) |-> i],
                       LAMBDA i : ~IndexExists(series[i], new))
  IN [j \in 1..Len(idx) |-> IndexKey(idx[j] - 1)]
     \o (IF ActiveExists(new) THEN <<>> ELSE <<ActiveKey>>)

\* ToInteger of the splice argument: "active" is NaN, which counts as 0
SpliceStart(key) == IF key.active THEN 0 ELSE key.idx

\* Array.prototype.splice(start) with one argument: everything from start
\* to the end is removed
Splice(series, key) == SubSeq(series, 1, Min(SpliceStart(key), Len(series)))

RECURSIVE SpliceAll(_, _)
SpliceAll(series, removeIndices) ==
  IF removeIndices = <<>> THEN series
  ELSE SpliceAll(Splice(series, Head(removeIndices)), Tail(removeIndices))

\* last loop: push every new entry whose name is not in the collection
RECURSIVE PushNew(_, _)
PushNew(series, new) ==
  IF new = <<>> THEN series
  ELSE IF \E i \in 1..Len(series) : series[i].name = Head(new).name
       THEN PushNew(series, Tail(new))
       ELSE PushNew(Append(series, Head(new)), Tail(new))

Reconcile(series, new) ==
  LET replaced      == [i \in 1..Len(series) |-> ReplaceData(series[i], new)]
      removeIndices == RemoveIndices(series, new)
      spliced       == SpliceAll(replaced, removeIndices)
      pushed        == PushNew(spliced, new)
  IN [series        |-> pushed,
      removeIndices |-> removeIndices,
      updateLegend  |-> (removeIndices # <<>>) \/ (Len(pushed) > Len(spliced))]

-----------------------------------------------------------------------------
(* The values the environment supplies. *)

\* the query built by ChartDisplay.display: timespanValues[defaultTimespanIndex]
InitialQuery == [metric |-> "m", project |-> "p", timespan |-> "1h"]

\* slider positions (two of ChartDisplay.timespanValues)
Timespans == {"1h", "2h"}

\* what the label form can produce: no input filled in, or one
LabelLists == {<<>>, <<"k==v">>}

\* new Date().toISOString() at the time of the call
Youngest == "now"

\* raw time series as returned by timeseries.list
RawSeries(type, iname, rid, points) ==
  [resource_type |-> type, instance_name |-> iname, resource_id |-> rid,
   points |-> points]

RawPoint(end, v) == [end |-> end, doubleValue |-> v]

\* points come newest first
PointsOld == <<RawPoint(2, 20), RawPoint(1, 10)>>
PointsNew == <<RawPoint(3, 30), RawPoint(2, 20)>>

rawA  == RawSeries("instance", "A", "1", PointsOld)
rawA2 == RawSeries("instance", "A", "1", PointsNew)
rawB  == RawSeries("instance", "B", "2", PointsOld)
rawC  == RawSeries("disk", "", "C", PointsNew)

\* a page of timeseries.list: hasTimeseries = FALSE is a response without
\* the timeseries field, nextPageToken = "" one without a token
Page(has, ts, tok) == [hasTimeseries |-> has, timeseries |-> ts, nextPageToken |-> tok]

PagesOver(raws, len, tokens) ==
  {Page(TRUE, ts, tok) : ts \in SeqUpTo(raws, len), tok \in tokens \cup {""}}
  \cup {Page(FALSE, <<>>, tok) : tok \in tokens \cup {""}}

-----------------------------------------------------------------------------
(* History of the last step, kept for stating the properties. *)

NoEv ==
  [op            |-> "init",   \* the handler that ran
   kind          |-> "",       \* the call whose callback ran: update or reset
   before        |-> EmptyObj, \* the query just before that call
   delta         |-> EmptyObj, \* the argument of this step's update call
   clean         |-> FALSE,    \* no update or reset since that call
   notices       |-> 0,        \* calls of error_ in this step
   created       |-> FALSE,    \* create_ ran in this step
   removeIndices |-> <<>>,     \* removeIndices of this step's reconciliation
   updateLegend  |-> FALSE,    \* updateLegend of this step's reconciliation
   cbData        |-> <<>>,     \* first argument of the getData callback
   cbHasResponse |-> FALSE,    \* whether a second argument was passed
   cbResponse    |-> Page(FALSE, <<>>, ""),
   pages         |-> <<>>,     \* the pages the finished call received
   reqs          |-> <<>>]     \* the page tokens its requests carried

Ev(op) == [NoEv EXCEPT !.op = op]

-----------------------------------------------------------------------------
(* MonitoringApi.getData: one closure per invocation. *)

\* an invocation whose accumulator is the one of the invocation before
NewCallSharingList(cb, q, kind, before) ==
  [cb         |-> cb,
   id         |-> issued + 1,
   localQuery |-> Merge(q, [youngest |-> Youngest]),
   timeseries |-> IF calls = <<>> THEN <<>> ELSE calls[Len(calls)].timeseries,
   pc         |-> "load",
   kind       |-> kind,
   before     |-> before,
   clean      |-> TRUE,
   pages      |-> <<>>,
   reqs       |-> <<>>]

\* the state of a fresh invocation: the private copy of the query with the
\* youngest field, the empty accumulator, makeCall waiting for client.load
\* (id, kind, before, clean, pages and reqs are history)
NewCall(cb, q, kind, before) ==
  [cb         |-> cb,
   id         |-> issued + 1,
   localQuery |-> Merge(q, [youngest |-> Youngest]),
   timeseries |-> <<>>,
   pc         |-> "load",
   kind       |-> kind,
   before     |-> before,
   clean      |-> TRUE,
   pages      |-> <<>>,
   reqs       |-> <<>>]

\* a later update or reset call: the earlier calls are no longer the latest
Overtaken(cs) == [i \in 1..Len(cs) |-> [cs[i] EXCEPT !.clean = FALSE]]

\* MonitoringApi.prototype.getData up to the first makeCall()
getData(cb, q, kind, before) ==
  /\ Len(calls) < MaxInFlight
  /\ issued < MaxCalls
  /\ issued' = issued + 1
  /\ calls' = Append(Overtaken(calls), NewCall(cb, q, kind, before))

\* a callback after which the invocation stays as it is
KeepCall(cs, i) == cs

Remove(cs, i) == SubSeq(cs, 1, i - 1) \o SubSeq(cs, i + 1, Len(cs))

\* the token the request built from localQuery carries ("" for none)
TokenOf(q) == IF "pageToken" \in DOMAIN q THEN q.pageToken ELSE ""

\* the query that was passed to getData for call c
SentQuery(c) ==
  [k \in (DOMAIN c.localQuery) \ {"youngest", "pageToken"} |-> c.localQuery[k]]

\* a makeCall that does not wait for the page before
MayExecuteAnyTime(c) == Len(c.reqs) < MaxFetchPages

\* whether makeCall's request may be built and executed now
MayExecute(c) == c.pc = "load"

\* the callback of gapi.client.load in makeCall: the request is built from
\* localQuery and executed
LoadDone(i) ==
  /\ i \in 1..Len(calls)
  /\ MayExecute(calls[i])
  /\ calls' = [calls EXCEPT ![i].pc = "exec",
                            ![i].reqs = Append(@, TokenOf(calls[i].localQuery))]
  /\ ev' = Ev("load")
  /\ UNCHANGED <<query, oldQuery_, aliased, data, chart_, legend, errorElement,
                 issued, lastCall, controller>>

\* a merge that puts the new page in front
MergeArraysInFront(first, second) == second \o first

\* $.merge(first, second)
MergeArrays(first, second) == first \o second

\* $.extend(localQuery, {'pageToken': token})
WithPageToken(q, token) == Merge(q, [pageToken |-> token])

\* a getData that works on the object of its caller
SharedWithCaller(q, localQuery) == localQuery

\* the caller's query object after a write to localQuery, which is a copy
\* made by $.extend({}, query): the object of the caller is not written
CallersQuery(q, localQuery) == q

\* a callback that follows the token of any response
BranchOnTokenFirst(response) ==
  IF response.nextPageToken # "" THEN "more"
  ELSE IF response.hasTimeseries THEN "done" ELSE "failed"

\* the branch of the execute callback: more pages, done, or failed
Branch(response) ==
  IF response.hasTimeseries
  THEN IF response.nextPageToken # "" THEN "more" ELSE "done"
  ELSE "failed"

-----------------------------------------------------------------------------
(* Chart: update, reset and the callback of update_. *)

\* history: the update calls in flight that no page has answered yet
Unanswered(cs) == {i \in 1..Len(cs) : cs[i].kind = "update" /\ cs[i].pages = <<>>}

\* a rollback copy that is only taken while no call is in flight
SnapshotWhenIdle(q) == IF calls = <<>> THEN q ELSE oldQuery_

\* the copy kept for rollback by Chart.prototype.update
Snapshot(q) == q

\* Chart.prototype.update
update(delta) ==
  /\ oldQuery_' = Snapshot(query)
  /\ query' = Merge(query, delta)
  /\ aliased' = FALSE
  /\ getData("chart", query', "update", query)
  /\ lastCall' = [kind   |-> "update",
                  before |-> query,
                  origin |-> IF Unanswered(calls) = {} THEN query
                             ELSE calls[CHOOSE i \in Unanswered(calls) :
                                    \A j \in Unanswered(calls) : i <= j].before,
                  burst  |-> 1 + Cardinality(Unanswered(calls))]
  /\ ev' = [Ev("update") EXCEPT !.delta = delta]
  /\ UNCHANGED <<data, chart_, legend, errorElement, controller>>

\* the function returned by ChartDisplay.intervalUpdater, for this chart
intervalUpdater == update(EmptyObj)

\* ChartDisplay.rangeUpdater, for this chart
rangeUpdater(timespan) == update([timespan |-> timespan])

\* the function returned by ChartDisplay.labelUpdater
labelUpdater(labels) == update([labels |-> labels])

\* Chart.prototype.reset: the labels are deleted from the query object
\* itself, which is also the rollback copy when the two are aliased
reset ==
  /\ query' = Delete(query, "labels")
  /\ oldQuery_' = IF aliased THEN Delete(oldQuery_, "labels") ELSE oldQuery_
  /\ UNCHANGED aliased
  /\ getData("chart", query', "reset", query)
  /\ lastCall' = [kind |-> "reset", before |-> query, origin |-> query,
                  burst |-> 0]
  /\ ev' = Ev("reset")
  /\ UNCHANGED <<data, chart_, legend, errorElement, controller>>

\* Chart.prototype.error_: the element is emptied and gets the new notice
error_(errorText) == errorElement' = <<errorText>>

\* a failure callback that leaves the query as it is
RollbackNothing == query

\* the query the callback of update_ leaves active after a failure
Rollback == oldQuery_

\* a failure branch that goes on to format the list it was given
FallThrough(timeseries) ==
  /\ data' = formatDataSimple_(timeseries)
  /\ UNCHANGED <<chart_, legend>>

\* the return that ends the failure branch of the callback: the list it was
\* given is not formatted and nothing is drawn
ReturnEarly(timeseries) == UNCHANGED <<data, chart_, legend>>

\* the callback of update_ with a response: notice and rollback
CallbackError(c, timeseries, response) ==
  /\ error_([query |-> query, response |-> response])
  /\ query' = Rollback
  /\ aliased' = TRUE
  /\ ReturnEarly(timeseries)
  /\ ev' = [Ev("fail") EXCEPT !.kind = c.kind,
                              !.before = c.before, !.clean = c.clean,
                              !.notices = 1, !.cbData = timeseries]
  /\ UNCHANGED oldQuery_

\* the name of a metric whose valueType is distribution
DistributionMetric == "d"

\* the formatter ChartDisplay.display gives the chart of a metric, applied:
\* self.formatter(data)
formatter(q, timeseries) ==
  IF q.metric = DistributionMetric THEN formatDataDistribution_(timeseries)
  ELSE formatDataSimple_(timeseries)

\* a chart that is created again whenever its collection is empty
MustCreateWhenEmpty == chart_.series = <<>>

\* if (!self.chart_): the Rickshaw graph does not exist yet
MustCreate == ~chart_.created

\* the callback of update_ without a response: format, then create the
\* chart or reconcile its series
CallbackData(c, timeseries) ==
  LET formatted == formatter(query, timeseries)
      rec       == Reconcile(chart_.series, formatted)
      history   == [Ev("ok") EXCEPT !.kind = c.kind,
                                    !.before = c.before, !.clean = c.clean]
  IN /\ data' = formatted
     /\ IF MustCreate
        THEN /\ chart_' = [created |-> TRUE, series |-> formatted]
             /\ legend' = createLegend_(formatted)
             /\ ev' = [history EXCEPT !.created = TRUE]
        ELSE /\ chart_' = [chart_ EXCEPT !.series = rec.series]
             /\ legend' = IF rec.updateLegend THEN createLegend_(rec.series)
                          ELSE legend
             /\ ev' = [history EXCEPT !.removeIndices = rec.removeIndices,
                                      !.updateLegend = rec.updateLegend]
     /\ UNCHANGED <<query, oldQuery_, aliased, errorElement>>

\* a caller of getData that only records what its callback is given
CallbackProbe(c, timeseries, hasResponse, response) ==
  /\ ev' = [Ev("probe") EXCEPT !.kind = c.kind,
                               !.cbData = timeseries,
                               !.cbHasResponse = hasResponse,
                               !.cbResponse = IF hasResponse THEN response
                                               ELSE NoEv.cbResponse,
                               !.pages = Append(c.pages, response),
                               !.reqs = c.reqs]
  /\ UNCHANGED <<query, oldQuery_, aliased, data, chart_, legend, errorElement>>

\* callback(timeseries) and callback(timeseries, response)
callback(c, timeseries, hasResponse, response) ==
  IF c.cb = "chart"
  THEN IF hasResponse THEN CallbackError(c, timeseries, response)
       ELSE CallbackData(c, timeseries)
  ELSE CallbackProbe(c, timeseries, hasResponse, response)

\* the callback passed to request.execute in makeCall
execute(i, response) ==
  /\ i \in 1..Len(calls)
  /\ calls[i].pc = "exec"
  /\ LET c      == calls[i]
         merged == MergeArrays(c.timeseries, response.timeseries)
     IN CASE Branch(response) = "more" ->
               /\ calls' = [calls EXCEPT
                     ![i].timeseries = merged,
                     ![i].localQuery = WithPageToken(@, response.nextPageToken),
                     ![i].pc = "load",
                     ![i].pages = Append(@, response)]
               /\ ev' = Ev("page")
               /\ query' = IF c.cb = "chart"
                            THEN CallersQuery(query, calls'[i].localQuery)
                            ELSE query
               /\ UNCHANGED <<oldQuery_, aliased, data, chart_, legend,
                              errorElement>>
          [] Branch(response) = "done" ->
               /\ calls' = Remove(calls, i)
               /\ callback(c, merged, FALSE, response)
          [] OTHER ->
               /\ calls' = Remove(calls, i)
               /\ callback(c, c.timeseries, TRUE, response)
  /\ UNCHANGED <<issued, lastCall, controller>>

\* Rickshaw.Graph.Behavior.Series.Toggle: a click on legend line j flips
\* the disabled flag of the line's series and the disabled class of the line
Toggle(j) ==
  /\ chart_.created
  /\ j \in 1..Len(legend)
  /\ chart_' = [chart_ EXCEPT !.series[legend[j].series].disabled = ~@]
  /\ legend' = [legend EXCEPT ![j].disabled = ~chart_.series[legend[j].series].disabled]
  /\ ev' = Ev("toggle")
  /\ UNCHANGED <<query, oldQuery_, aliased, data, errorElement, calls,
                 issued, lastCall, controller>>

\* the timeout set in error_: the notice is removed
DismissError ==
  /\ errorElement # <<>>
  /\ errorElement' = <<>>
  /\ ev' = Ev("dismiss")
  /\ UNCHANGED <<query, oldQuery_, aliased, data, chart_, legend, calls,
                 issued, lastCall, controller>>

-----------------------------------------------------------------------------
(* The Controller with the MonitoringApi and the ChartDisplay it is given, *)
(* and the page they work on.                                              *)

\* a project ID that is null or the empty string
NoProject == ""

Projects == {"p1", "p2"}

\* what the last handler of the controller did
NoStep == [op |-> "", timer |-> 0, requested |-> {}, created |-> 0,
           updated |-> {}]

\* the project form and the project display before checkProjectId_ or
\* displayCharts_ shows them
PageAtLoad == [form |-> FALSE, display |-> FALSE]

\* the state after the constructors of MonitoringApi, ChartDisplay and
\* Controller
Controller ==
  [started          |-> FALSE,       \* Controller.init has run
   interval_        |-> 0,           \* Controller.interval_ (0 is null)
   timers           |-> {},          \* the intervals of window that are set
   handles          |-> 0,           \* interval handles given out so far
   authorizing      |-> 0,           \* authorize calls without result
   authorizeCalls   |-> 0,           \* authorize calls made so far
   authorizeButton  |-> FALSE,       \* #authorize-button made visible
   authorizeClicks  |-> 0,           \* click handlers of #authorize-button
   authorized       |-> FALSE,       \* history: a token has been granted
   projectId        |-> NoProject,   \* MonitoringApi.projectId
   stored           |-> NoProject,   \* localStorage item 'project-id'
   form             |-> PageAtLoad.form,     \* #project-form displayed
   display          |-> PageAtLoad.display,  \* #project-display displayed
   submits          |-> 0,           \* project IDs submitted so far
   metrics          |-> <<>>,        \* getMetrics calls in flight
   charts_          |-> <<>>,        \* ChartDisplay.charts_: their queries
   last             |-> NoStep]

-----------------------------------------------------------------------------
(* The chart session: one chart, its users and the data source. *)

SessionRaw == {rawA}

SessionTokens == {"t1"}

SessionLabels == {<<"k==v">>}

\* the pages the data source may answer the next request of call c with
SessionPages(c) ==
  {r \in PagesOver(SessionRaw, 1, SessionTokens) :
     /\ r.nextPageToken # "" => Len(c.pages) + 1 < MaxPages
     /\ r.nextPageToken # "" => r.hasTimeseries}

\* a chart before its first getData call
NewChart ==
  /\ query = InitialQuery
  /\ oldQuery_ = InitialQuery
  /\ aliased = TRUE
  /\ data = <<>>
  /\ chart_ = [created |-> FALSE, series |-> <<>>]
  /\ legend = <<>>
  /\ errorElement = <<>>
  /\ calls = <<>>
  /\ issued = 0
  /\ lastCall = [kind |-> "", before |-> EmptyObj, origin |-> EmptyObj, burst |-> 0]
  /\ ev = NoEv
  /\ controller = Controller

\* the state after the constructor of Chart, which ends with this.update()
Init ==
  /\ query = InitialQuery
  /\ oldQuery_ = InitialQuery
  /\ aliased = FALSE
  /\ data = <<>>
  /\ chart_ = [created |-> FALSE, series |-> <<>>]
  /\ legend = <<>>
  /\ errorElement = <<>>
  /\ issued = 0
  /\ calls = <<[NewCall("chart", InitialQuery, "update", InitialQuery)
                  EXCEPT !.id = 0]>>
  /\ lastCall = [kind |-> "update", before |-> InitialQuery,
                 origin |-> InitialQuery, burst |-> 1]
  /\ ev = NoEv
  /\ controller = Controller

Next ==
  \/ intervalUpdater
  \/ \E t \in Timespans : rangeUpdater(t)
  \/ \E l \in SessionLabels : labelUpdater(l)
  \/ reset
  \/ \E i \in DOMAIN calls : LoadDone(i)
  \/ \E i \in DOMAIN calls : \E r \in SessionPages(calls[i]) : execute(i, r)
  \/ DismissError

Spec == Init /\ [][Next]_vars

-----------------------------------------------------------------------------
(* The reconciliation alone: the callback of update_ is given every result *)
(* list, and the user toggles series in the legend.                        *)

RecRaw == {rawA, rawA2, rawB, rawC}

\* the callback of update_ invoked with the accumulated list
Deliver(timeseries) ==
  /\ CallbackData(NewCall("chart", query, "update", query), timeseries)
  /\ UNCHANGED <<calls, issued, lastCall, controller>>

NextRec ==
  \/ \E ts \in SeqUpTo(RecRaw, MaxNew) : Deliver(ts)
  \/ \E j \in DOMAIN legend : Toggle(j)

SpecRec == NewChart /\ [][NextRec]_vars

-----------------------------------------------------------------------------
(* The fetcher alone: callers that record what getData hands them.         *)

FetchRaw == {rawA, rawB}

FetchTokens == {"t1", "t2"}

FetchQueries == {InitialQuery, [InitialQuery EXCEPT !.timespan = "2h"]}

FetchPages(c) ==
  {r \in PagesOver(FetchRaw, 1, FetchTokens) :
     r.nextPageToken # "" => Len(c.pages) + 1 < MaxFetchPages}

\* api.getData(q, callback) by a recording caller
Probe(q) ==
  /\ getData("probe", q, "probe", q)
  /\ ev' = Ev("call")
  /\ UNCHANGED <<query, oldQuery_, aliased, data, chart_, legend, errorElement,
                 lastCall, controller>>

NextFetch ==
  \/ \E q \in FetchQueries : Probe(q)
  \/ \E i \in DOMAIN calls : LoadDone(i)
  \/ \E i \in DOMAIN calls : \E r \in FetchPages(calls[i]) : execute(i, r)

SpecFetch == NewChart /\ [][NextFetch]_vars

\* the fetcher with requests that all resolve, over one query and pages of
\* one series: a page may carry a token until MaxFetchPages is reached
LivePages(c) ==
  {r \in PagesOver({rawA}, 1, {"t1"}) :
     r.nextPageToken # "" => Len(c.pages) + 1 < MaxFetchPages}

NextFetchLive ==
  \/ Probe(InitialQuery)
  \/ \E i \in DOMAIN calls : LoadDone(i)
  \/ \E i \in DOMAIN calls : \E r \in LivePages(calls[i]) : execute(i, r)

\* every request resolves: the callbacks of client.load and of execute run
SpecFetchLive ==
  /\ NewChart
  /\ [][NextFetchLive]_vars
  /\ WF_vars(\E i \in DOMAIN calls : LoadDone(i))
  /\ WF_vars(\E i \in DOMAIN calls : \E r \in LivePages(calls[i]) : execute(i, r))

-----------------------------------------------------------------------------
(* The formatters alone: each is applied to every list of raw series.      *)

\* a raw series with one more label, which no formatter reads
RawSeriesWith(type, iname, rid, device, points) ==
  [resource_type |-> type, instance_name |-> iname, resource_id |-> rid,
   device_name |-> device, points |-> points]

\* points in ascending order of time
PointsAscending == <<RawPoint(1, 10), RawPoint(2, 20)>>

\* one instance; the same instance with another device label; an instance of
\* the same name with another id; a disk; an instance whose points come
\* oldest first; two instances without the instance_name label
ScalarRaw ==
  {RawSeriesWith("instance", "A", "1", "", PointsOld),
   RawSeriesWith("instance", "A", "1", "sda", PointsNew),
   RawSeriesWith("instance", "A", "2", "", PointsOld),
   RawSeriesWith("disk", Undefined, "C", "", PointsNew),
   RawSeriesWith("instance", "D", "4", "", PointsAscending),
   RawSeriesWith("instance", Undefined, "5", "", PointsOld),
   RawSeriesWith("instance", Undefined, "6", "", PointsNew)}

Bucket(lower, upper, count) ==
  [lowerBound |-> lower, upperBound |-> upper, count |-> count]

\* a point with a distributionValue, and one without
DistPoint(end, buckets) ==
  [end |-> end, hasDistribution |-> TRUE, buckets |-> buckets]

PlainPoint(end) == [end |-> end, hasDistribution |-> FALSE, buckets |-> <<>>]

\* one instance with two ranges; the same instance with another device
\* label; an instance of the same name with another id; a disk with a point
\* without distribution; a disk with no distribution at all
DistributionRaw ==
  {RawSeriesWith("instance", "A", "1", "",
     <<DistPoint(2, <<Bucket(0, 10, <<5>>), Bucket(10, 20, <<1, 2>>)>>),
       DistPoint(1, <<Bucket(0, 10, <<3>>)>>)>>),
   RawSeriesWith("instance", "A", "1", "sda",
     <<DistPoint(3, <<Bucket(0, 10, <<1>>)>>)>>),
   RawSeriesWith("instance", "A", "2", "",
     <<DistPoint(2, <<Bucket(0, 10, <<4>>)>>)>>),
   RawSeriesWith("disk", Undefined, "C", "",
     <<PlainPoint(2), DistPoint(1, <<Bucket(10, 20, <<7>>)>>)>>),
   RawSeriesWith("disk", Undefined, "N", "", <<PlainPoint(1)>>)}

\* the lists of up to n different series of S
ListsOf(S, n) ==
  {l \in SeqUpTo(S, n) : \A i, j \in 1..Len(l) : l[i] = l[j] => i = j}

\* self.formatter(data) with the function formatDataSimple_ returns
FormatSimple(raw) ==
  /\ data' = formatDataSimple_(raw)
  /\ ev' = [Ev("simple") EXCEPT !.cbData = raw]
  /\ UNCHANGED <<query, oldQuery_, aliased, chart_, legend, errorElement,
                 calls, issued, lastCall, controller>>

\* self.formatter(data) with the function formatDataDistribution_ returns
FormatDistribution(raw) ==
  /\ data' = formatDataDistribution_(raw)
  /\ ev' = [Ev("distribution") EXCEPT !.cbData = raw]
  /\ UNCHANGED <<query, oldQuery_, aliased, chart_, legend, errorElement,
                 calls, issued, lastCall, controller>>

NextFormat ==
  \/ \E raw \in ListsOf(ScalarRaw, MaxFormat) : FormatSimple(raw)
  \/ \E raw \in ListsOf(DistributionRaw, MaxFormat) : FormatDistribution(raw)

SpecFormat == NewChart /\ [][NextFormat]_vars

-----------------------------------------------------------------------------
(* Charts of both kinds of metric: the callback of update_ is given result *)
(* lists of the metric's value type, and the user toggles series.          *)

\* a chart of the given metric before its first getData call
NewChartOf(metric) ==
  /\ query = [InitialQuery EXCEPT !.metric = metric]
  /\ oldQuery_ = query
  /\ aliased = TRUE
  /\ data = <<>>
  /\ chart_ = [created |-> FALSE, series |-> <<>>]
  /\ legend = <<>>
  /\ errorElement = <<>>
  /\ calls = <<>>
  /\ issued = 0
  /\ lastCall = [kind |-> "", before |-> EmptyObj, origin |-> EmptyObj, burst |-> 0]
  /\ ev = NoEv
  /\ controller = Controller

\* the result lists the source has for the metric of the chart
ResultLists ==
  IF query.metric = DistributionMetric
  THEN ListsOf(DistributionRaw, MaxNew)
  ELSE ListsOf(RecRaw, MaxNew)

NextCharts ==
  \/ \E ts \in ResultLists : Deliver(ts)
  \/ \E j \in DOMAIN legend : Toggle(j)

SpecCharts ==
  /\ \E metric \in {InitialQuery.metric, DistributionMetric} : NewChartOf(metric)
  /\ [][NextCharts]_vars

-----------------------------------------------------------------------------
(* The chart session with a source that answers by the value of the query: *)
(* it rejects a timespan of 2h without label filter and accepts every      *)
(* other query, the initial one included.                                  *)

HasLabels(q) == "labels" \in DOMAIN q /\ q.labels # <<>>

Rejected(q) == q.timespan = "2h" /\ ~HasLabels(q)

\* the pages of the answer to query q
SourcePages(q) ==
  IF Rejected(q) THEN <<Page(FALSE, <<>>, "")>>
  ELSE IF HasLabels(q)
       THEN IF q.timespan = "2h"
            THEN <<Page(TRUE, <<rawA2>>, "t1"), Page(TRUE, <<rawB>>, "")>>
            ELSE <<Page(TRUE, <<rawB>>, "")>>
       ELSE <<Page(TRUE, <<rawA>>, "")>>

\* the page that answers the next request of call c
SourcePage(c) == SourcePages(SentQuery(c))[Len(c.pages) + 1]

NextSource ==
  \/ intervalUpdater
  \/ \E t \in Timespans : rangeUpdater(t)
  \/ \E l \in LabelLists : labelUpdater(l)
  \/ reset
  \/ \E i \in DOMAIN calls : LoadDone(i)
  \/ \E i \in DOMAIN calls : execute(i, SourcePage(calls[i]))
  \/ DismissError

SpecSource == Init /\ [][NextSource]_vars

-----------------------------------------------------------------------------
(* The controller: authorization, the project form, the list of charts,    *)
(* the slider and the refresh interval. The one chart of the variables     *)
(* above is left alone.                                                    *)

AuthResults == {"null", "TypeError", "token"}

\* a handler that takes every result for a token
AnyResult(authResult) == TRUE
\* the test of handleAuthResult: authResult && authResult.name != 'TypeError'
Succeeded(authResult) == authResult # "null" /\ authResult # "TypeError"

\* a clearInterval without effect
KeepInterval(timers, h) == timers
\* window.clearInterval
ClearInterval(timers, h) == timers \ {h}

\* window.setInterval
SetInterval(timers, h) == timers \cup {h}

\* the projects of the queries of the charts in the list
ChartProjects(charts) == {charts[i].project : i \in DOMAIN charts}

\* MonitoringApi.getMetrics: gapi.client.load is called
getMetrics(c) == [c EXCEPT !.metrics = Append(@, [pc |-> "load",
                                                 project |-> NoProject])]

\* the function returned by displayCharts_
displayCharts_(c) ==
  getMetrics([c EXCEPT !.form = FALSE, !.display = TRUE])

\* the function returned by checkProjectId_
checkProjectId_(c) ==
  IF c.stored # NoProject
  THEN displayCharts_([c EXCEPT !.projectId = c.stored])
  ELSE [c EXCEPT !.form = TRUE]

\* Controller.prototype.init, with the local storage as earlier visits
\* left it: authorize is called, the handlers are registered and the
\* interval is started
init(stored) ==
  /\ ~controller.started
  /\ controller' = [controller EXCEPT
       !.started = TRUE,
       !.stored = stored,
       !.authorizing = 1,
       !.authorizeCalls = 1,
       !.handles = 1,
       !.interval_ = 1,
       !.timers = SetInterval(@, 1),
       !.last = [NoStep EXCEPT !.op = "init"]]
  /\ UNCHANGED <<query, oldQuery_, aliased, data, chart_, legend, errorElement,
                 calls, issued, lastCall, ev>>

\* the function returned by handleAuthResult, called with the result of
\* an authorize call
handleAuthResult(authResult) ==
  LET c == [controller EXCEPT
              !.authorizing = @ - 1,
              !.authorized = @ \/ authResult = "token",
              !.last = [NoStep EXCEPT !.op = "authResult"]]
  IN /\ controller.authorizing > 0
     /\ controller' =
          IF Succeeded(authResult)
          THEN checkProjectId_([c EXCEPT !.authorizeButton = FALSE])
          ELSE [c EXCEPT !.authorizeButton = TRUE,
                         !.authorizeClicks = @ + 1]
     /\ UNCHANGED <<query, oldQuery_, aliased, data, chart_, legend,
                    errorElement, calls, issued, lastCall, ev>>

\* a click on #authorize-button: every handler registered by a failed
\* result calls authorize
authorizeClick ==
  /\ controller.authorizeButton
  /\ controller.authorizeClicks > 0
  /\ controller.authorizeCalls + controller.authorizeClicks <= MaxAuthorize
  /\ controller' = [controller EXCEPT
       !.authorizing = @ + controller.authorizeClicks,
       !.authorizeCalls = @ + controller.authorizeClicks,
       !.last = [NoStep EXCEPT !.op = "authorize"]]
  /\ UNCHANGED <<query, oldQuery_, aliased, data, chart_, legend, errorElement,
                 calls, issued, lastCall, ev>>

\* the function returned by setProjectId_: a click on #project-button
\* with the given value in #project-id-field
setProjectId_(projectId) ==
  /\ controller.started
  /\ controller.form
  /\ controller.submits < MaxSubmits
  /\ controller' =
       IF projectId # NoProject
       THEN displayCharts_([controller EXCEPT
              !.stored = projectId,
              !.projectId = projectId,
              !.submits = @ + 1,
              !.last = [NoStep EXCEPT !.op = "setProjectId"]])
       ELSE [controller EXCEPT !.last = [NoStep EXCEPT !.op = "alert"]]
  /\ UNCHANGED <<query, oldQuery_, aliased, data, chart_, legend, errorElement,
                 calls, issued, lastCall, ev>>

\* the function returned by resetProjectId_: a click on #project-id
resetProjectId_ ==
  /\ controller.started
  /\ controller.display
  /\ controller' = [controller EXCEPT
       !.form = TRUE,
       !.display = FALSE,
       !.last = [NoStep EXCEPT !.op = "resetProjectId"]]
  /\ UNCHANGED <<query, oldQuery_, aliased, data, chart_, legend, errorElement,
                 calls, issued, lastCall, ev>>

\* the callback of gapi.client.load in getMetrics: the request is built
\* with the project ID of this moment and executed
MetricsLoaded(i) ==
  /\ i \in DOMAIN controller.metrics
  /\ controller.metrics[i].pc = "load"
  /\ controller' = [controller EXCEPT
       !.metrics[i] = [pc |-> "exec", project |-> controller.projectId],
       !.last = [NoStep EXCEPT !.op = "metricDescriptors",
                               !.requested = {controller.projectId}]]
  /\ UNCHANGED <<query, oldQuery_, aliased, data, chart_, legend, errorElement,
                 calls, issued, lastCall, ev>>

\* ChartDisplay.prototype.display, for n metrics: each chart is created
\* with the project ID of this moment and pushed on the list
RECURSIVE display(_, _, _)
display(charts, projectId, n) ==
  IF n = 0 THEN charts
  ELSE display(Append(charts, [project  |-> projectId,
                               timespan |-> InitialQuery.timespan]),
               projectId, n - 1)

\* the function returned by displayDefaultCharts, called with an answer
\* that holds n of the default metrics; the constructor of each chart
\* ends with update()
displayDefaultCharts(i, n) ==
  /\ i \in DOMAIN controller.metrics
  /\ controller.metrics[i].pc = "exec"
  /\ controller' = [controller EXCEPT
       !.metrics = Remove(@, i),
       !.charts_ = display(@, controller.projectId, n),
       !.last = [NoStep EXCEPT
                   !.op = "display",
                   !.created = n,
                   !.updated = IF n = 0 THEN {} ELSE {controller.projectId}]]
  /\ UNCHANGED <<query, oldQuery_, aliased, data, chart_, legend, errorElement,
                 calls, issued, lastCall, ev>>

\* the function returned by ChartDisplay.intervalUpdater, called by the
\* interval with the given handle: update() of every chart of the list
tick(h) ==
  /\ h \in controller.timers
  /\ controller' = [controller EXCEPT
       !.last = [NoStep EXCEPT !.op = "tick",
                               !.timer = h,
                               !.updated = ChartProjects(controller.charts_)]]
  /\ UNCHANGED <<query, oldQuery_, aliased, data, chart_, legend, errorElement,
                 calls, issued, lastCall, ev>>

\* the change handler of the slider: rangeUpdater for every chart of the
\* list, then the interval is cleared and set again
sliderChange(timespan) ==
  /\ controller.started
  /\ controller.handles <= MaxSliderChanges
  /\ controller' = [controller EXCEPT
       !.charts_ = [j \in DOMAIN @ |-> [@[j] EXCEPT !.timespan = timespan]],
       !.handles = @ + 1,
       !.interval_ = controller.handles + 1,
       !.timers = SetInterval(ClearInterval(@, controller.interval_),
                              controller.handles + 1),
       !.last = [NoStep EXCEPT !.op = "slider",
                               !.updated = ChartProjects(controller.charts_)]]
  /\ UNCHANGED <<query, oldQuery_, aliased, data, chart_, legend, errorElement,
                 calls, issued, lastCall, ev>>

NextController ==
  \/ \E stored \in {NoProject} \cup Projects : init(stored)
  \/ \E authResult \in AuthResults : handleAuthResult(authResult)
  \/ authorizeClick
  \/ \E projectId \in {NoProject} \cup Projects : setProjectId_(projectId)
  \/ resetProjectId_
  \/ \E i \in DOMAIN controller.metrics : MetricsLoaded(i)
  \/ \E i \in DOMAIN controller.metrics, n \in 0..MaxMetrics :
       displayDefaultCharts(i, n)
  \/ \E h \in controller.timers : tick(h)
  \/ \E timespan \in Timespans : sliderChange(timespan)

SpecController == NewChart /\ [][NextController]_vars

-----------------------------------------------------------------------------
(* Properties of the chart session (Spec). *)

\* C1, as claimed: whenever the fetch issued by an update call has failed,
\* the failure callback leaves the active query equal to the query that was
\* active just before that update call, and it has emitted one error notice,
\* whatever other calls happened in between.
RollbackToBeforeCallAlways ==
  (ev.op = "fail" /\ ev.kind = "update")
     => (query = ev.before /\ ev.notices = 1)

\* C1, amended: whenever the fetch issued by an update call has failed and no
\* other update or reset call was made on the chart between that call and
\* the failure callback, the callback leaves the active query equal to the
\* query that was active just before that update call, and it has emitted
\* one error notice.
RollbackToBeforeLatestCall ==
  (ev.op = "fail" /\ ev.kind = "update" /\ ev.clean)
     => (query = ev.before /\ ev.notices = 1 /\ Len(errorElement) = 1)

\* C1, witness: the fetch of the latest update call has failed, that call had
\* changed the query, and the query is back at its value before the call.
RolledBackLatestCall ==
  /\ ev.op = "fail" /\ ev.kind = "update" /\ ev.clean
  /\ query = ev.before
  /\ errorElement # <<>>
  /\ errorElement[1].query # ev.before

\* C2: when two or more update calls were made before any of their
\* responses returned, the rollback copy is the query as it was just before
\* the last of them, and a failure callback that runs afterwards leaves
\* that query active.
RollbackToSecondToLast ==
  (lastCall.kind = "update" /\ lastCall.burst >= 2)
     => /\ oldQuery_ = lastCall.before
        /\ ev.op = "fail" => query = lastCall.before

\* C2, witness: after such a burst a failure callback has run, and the
\* query it left active is the one before the last call, which differs from
\* the one before the first call of the burst.
RolledBackToSecondToLast ==
  /\ lastCall.kind = "update" /\ lastCall.burst >= 2
  /\ ev.op = "fail"
  /\ query = lastCall.before
  /\ lastCall.before # lastCall.origin


\* C11: a failure callback leaves the formatted data, the live series
\* collection and the legend exactly as they were; the list accumulated from
\* the earlier pages of the failed fetch is neither formatted nor displayed.
FailureKeepsLastGoodData ==
  [][ev'.op = "fail" =>
       /\ data' = data
       /\ chart_' = chart_
       /\ legend' = legend]_vars

\* C11, witness: a fetch has failed on a later page, so that its callback was
\* handed a non-empty partial list, while the chart was showing data.
FailedWithPartialList ==
  /\ ev.op = "fail"
  /\ ev.cbData # <<>>
  /\ chart_.created
  /\ data # <<>>
  /\ legend # <<>>

\* C12: the Rickshaw graph is created in a step exactly when that step is a
\* success callback and no graph existed, with the formatted series of that
\* response; once created it stays, a failure callback never creates it, and
\* a success callback on an existing graph reconciles into its collection.
RendererInitializedOnce ==
  [][/\ ev'.created <=> (ev'.op = "ok" /\ ~chart_.created)
     /\ chart_.created => chart_'.created
     /\ ev'.created => (chart_'.created /\ chart_'.series = data')
     /\ ev'.op = "fail" => (~ev'.created /\ chart_' = chart_)
     /\ (ev'.op = "ok" /\ chart_.created) =>
           chart_'.series = Reconcile(chart_.series, data').series]_vars

\* C12, witness: a success callback has reconciled into the existing graph
\* after its collection had become empty, while another fetch is in flight.
ReconciledIntoEmptiedGraph ==
  /\ ev.op = "ok" /\ ~ev.created
  /\ chart_.created
  /\ chart_.series # <<>>
  /\ ev.updateLegend
  /\ calls # <<>>

\* C13: right after reset the active query has no labels field, every other
\* field is as before the call, and the fetch issued by the call carries the
\* fields of that query and no labels.
ResetRemovesLabels ==
  ev.op = "reset" =>
     LET sent == calls[Len(calls)].localQuery IN
     /\ "labels" \notin DOMAIN query
     /\ DOMAIN query = (DOMAIN lastCall.before) \ {"labels"}
     /\ \A k \in DOMAIN query : query[k] = lastCall.before[k]
     /\ "labels" \notin DOMAIN sent
     /\ \A k \in DOMAIN query : sent[k] = query[k]

\* C13, witness: reset was called while the query had a non-empty label list.
ResetWithLabels ==
  /\ ev.op = "reset"
  /\ "labels" \in DOMAIN lastCall.before
  /\ lastCall.before.labels # <<>>
  /\ calls # <<>>

\* the two queries agree on every field but labels
SameButLabels(p, q) ==
  /\ (DOMAIN p) \ {"labels"} = (DOMAIN q) \ {"labels"}
  /\ \A k \in (DOMAIN p) \ {"labels"} : p[k] = q[k]

\* C14: reset leaves what removing the labels and calling update with no
\* delta would leave: the label-less query both as the active query and as
\* the rollback copy; so when the fetch issued by the latest reset call has
\* failed, the active query differs from the query just before reset at most
\* in the labels field.
ResetIsUpdateWithoutLabels ==
  /\ ev.op = "reset" =>
       /\ SameButLabels(query, lastCall.before)
       /\ "labels" \notin DOMAIN query
       /\ oldQuery_ = query
  /\ (ev.op = "fail" /\ ev.kind = "reset" /\ ev.clean) =>
       SameButLabels(query, ev.before)

\* C15: right after update(delta) the active query has the keys of the query
\* before and of delta, with delta's value for every key of delta and the
\* earlier value for every other key; with an empty delta it is unchanged;
\* the rollback copy equals the query before the call and is an object of
\* its own.
UpdateMergesDelta ==
  ev.op = "update" =>
     LET b == lastCall.before
         d == ev.delta
     IN /\ DOMAIN query = (DOMAIN b) \cup (DOMAIN d)
        /\ \A k \in DOMAIN d : query[k] = d[k]
        /\ \A k \in (DOMAIN b) \ (DOMAIN d) : query[k] = b[k]
        /\ d = EmptyObj => query = b
        /\ oldQuery_ = b
        /\ ~aliased

\* C15, witness: update was called with a timespan that differs from the
\* active one while the query had labels, which persist.
UpdatedTimespanKeepingLabels ==
  /\ ev.op = "update"
  /\ "timespan" \in DOMAIN ev.delta
  /\ ev.delta.timespan # lastCall.before.timespan
  /\ "labels" \in DOMAIN lastCall.before
  /\ "labels" \in DOMAIN query

\* C16: the notice of a failure callback holds the query that was sent in
\* the fetch that failed and the response of that fetch, whatever happened
\* to the active query since the fetch was started.
NoticeShowsOffendingQuery ==
  [][ev'.op = "fail" =>
       \A i \in DOMAIN calls :
          calls' = Remove(calls, i) =>
             /\ Len(errorElement') = 1
             /\ errorElement'[1].query = SentQuery(calls[i])
             /\ ~errorElement'[1].response.hasTimeseries]_vars

\* C23: the query object of the chart, which is what getData is given,
\* never has a pageToken or youngest field, and the steps of getData (the
\* callback of client.load, a page that is followed by another request, and
\* the last page with its success callback) leave it as it is.
CallerQueryUntouched ==
  /\ [](DOMAIN query \subseteq {"metric", "project", "timespan", "labels"})
  /\ [][ev'.op \in {"load", "page", "ok"} => query' = query]_vars

\* C23, witness: a call of the chart has put the token of a page into its
\* copy of the query, while the query of the chart has none.
TokenOnlyInCopy ==
  /\ \E i \in 1..Len(calls) :
        /\ calls[i].cb = "chart"
        /\ TokenOf(calls[i].localQuery) # ""
        /\ "youngest" \in DOMAIN calls[i].localQuery
  /\ TokenOf(query) = ""

-----------------------------------------------------------------------------
(* Properties of the session with the answering source (SpecSource). *)

\* the entries of a sequence of pages, in page order
RECURSIVE ConcatPages(_)
ConcatPages(pages) ==
  IF pages = <<>> THEN <<>>
  ELSE Head(pages).timeseries \o ConcatPages(Tail(pages))

\* C26: whenever no fetch of the chart is in flight, the active query is
\* not one the source rejects.
IdleQueryNotRejected == calls = <<>> => ~Rejected(query)

\* C27: whenever the chart has been created and no fetch is in flight, the
\* displayed data are the formatted answer of the source to the active
\* query.
IdleDataOfActiveQuery ==
  (chart_.created /\ calls = <<>>) =>
     /\ ~Rejected(query)
     /\ data = formatter(query, ConcatPages(SourcePages(query)))

-----------------------------------------------------------------------------
(* Properties of the controller (SpecController). *)

\* the handler of the last step sent a request or made a chart update
SentRequests ==
  \/ controller.last.requested # {}
  \/ controller.last.created > 0
  \/ controller.last.updated # {}
  \/ \E i \in DOMAIN controller.metrics : controller.metrics[i].pc = "exec"

ExactlyOneInterval ==
  controller.started =>
     /\ controller.timers = {controller.interval_}
     /\ controller.last.op = "tick" =>
          controller.last.timer = controller.interval_
     /\ controller.last.op = "slider" =>
          /\ controller.last.updated = ChartProjects(controller.charts_)
          /\ controller.interval_ = controller.handles
          /\ controller.handles > 1

\* a tick updates a chart after the slider was changed
TickAfterSliderChange ==
  /\ controller.handles > 1
  /\ controller.last.op = "tick"
  /\ controller.last.updated # {}

\* C29: when no metric list is awaited, every chart of the list has the
\* current project ID of the API object in its query.
ChartsOfCurrentProject ==
  controller.metrics = <<>> =>
     \A i \in DOMAIN controller.charts_ :
        controller.charts_[i].project = controller.projectId

-----------------------------------------------------------------------------
(* Properties of the formatters (SpecFormat). After a step with ev.op =    *)
(* "simple" or "distribution", ev.cbData is the list of raw series the     *)
(* formatter was given and data the list it returned.                      *)

Formatted == ev.op \in {"simple", "distribution"}

\* C17: every series a formatter returns has its data in strictly ascending
\* order of x, whatever the order of the raw points and also when a
\* sub-series of the distribution formatter collects the buckets of several
\* raw series.
DataAscending ==
  Formatted =>
     \A s \in 1..Len(data) :
        \A i, j \in 1..Len(data[s].data) :
           i < j => data[s].data[i].x < data[s].data[j].x

\* C18: two sub-series returned by one call of the distribution formatter
\* have the same colour exactly when they have the same range (legend).
ColourIffSameRange ==
  ev.op = "distribution" =>
     \A i, j \in 1..Len(data) :
        data[i].color = data[j].color <=> data[i].legend = data[j].legend

\* C18, witness: the distribution formatter has returned two sub-series of
\* different resources with the same range and one with another range.
TwoResourcesTwoRanges ==
  /\ ev.op = "distribution"
  /\ \E i, j, k \in 1..Len(data) :
        /\ i # j
        /\ data[i].legend = data[j].legend
        /\ data[i].name # data[j].name
        /\ data[k].legend # data[i].legend

\* C19: no two series returned by one call of a formatter have the same
\* name.
NamesUnique ==
  Formatted =>
     \A i, j \in 1..Len(data) : data[i].name = data[j].name => i = j

\* the buckets of the raw list, each as <<series, point, bucket>>
Occurrences(raw) ==
  UNION {UNION {{<<s, p, b>> : b \in 1..Len(raw[s].points[p].buckets)} :
                  p \in {n \in 1..Len(raw[s].points) :
                           raw[s].points[n].hasDistribution}} :
           s \in 1..Len(raw)}

BucketAt(raw, o) == raw[o[1]].points[o[2]].buckets[o[3]]

RangeAt(raw, o) ==
  ToString(BucketAt(raw, o).lowerBound) \o "-"
     \o ToString(BucketAt(raw, o).upperBound)

\* the (resourceId, range) pair of a bucket
PairAt(raw, o) == <<raw[o[1]].resource_id, RangeAt(raw, o)>>

\* the data point a bucket stands for
PointAt(raw, o) ==
  [x |-> GetTime(raw[o[1]].points[o[2]].end),
   y |-> ParseInt(BucketAt(raw, o).count)]

\* series e is the output for pair q: legend and name are those of the
\* pair, and its data are the points of the buckets of the pair, each as
\* often as it occurs
SeriesOfPair(e, raw, q) ==
  LET occs == {o \in Occurrences(raw) : PairAt(raw, o) = q} IN
  /\ e.legend = q[2]
  /\ \A o \in occs :
        e.name = (IF raw[o[1]].resource_type = "instance"
                  THEN raw[o[1]].instance_name
                  ELSE raw[o[1]].resource_id) \o ":" \o q[2]
  /\ Len(e.data) = Cardinality(occs)
  /\ \A o \in occs :
        Cardinality({i \in 1..Len(e.data) : e.data[i] = PointAt(raw, o)})
           = Cardinality({o2 \in occs : PointAt(raw, o2) = PointAt(raw, o)})

\* C20: the distribution formatter returns one series per (resourceId,
\* range) pair among the buckets of its input, with legend = range, name =
\* resourceName:range and one data point {x: end time, y: count} per bucket
\* of the pair; points without distribution add nothing, and an input
\* without buckets gives an empty list.
OneSeriesPerPair ==
  ev.op = "distribution" =>
     LET raw   == ev.cbData
         pairs == {PairAt(raw, o) : o \in Occurrences(raw)}
     IN /\ Len(data) = Cardinality(pairs)
        /\ \E f \in [pairs -> 1..Len(data)] :
              /\ \A q1, q2 \in pairs : f[q1] = f[q2] => q1 = q2
              /\ \A q \in pairs : SeriesOfPair(data[f[q]], raw, q)

\* C20, witness: the formatter was given three raw series, two of them of
\* the same resource and one with a point without distribution, and has
\* returned three sub-series, one of them with three points.
ThreeSeriesFromSharedResource ==
  /\ ev.op = "distribution"
  /\ Len(ev.cbData) = 3
  /\ \E s \in 1..3 : \E p \in 1..Len(ev.cbData[s].points) :
        ~ev.cbData[s].points[p].hasDistribution
  /\ Len(data) = 3
  /\ \E k \in 1..3 : Len(data[k].data) = 3

-----------------------------------------------------------------------------
(* Properties of charts of both kinds (SpecCharts). *)

\* the legend has just been rendered from the live collection
Rendered == ev.op = "ok" /\ (ev.created \/ ev.updateLegend)

\* C24: a rendered legend has one line per distinct legend value of the
\* series that have a legend and one line per series without legend; no two
\* lines stand for series with the same legend value; the text of a line is
\* the legend of its series when it has one, and its name otherwise.
LegendLinePerLabel ==
  Rendered =>
     LET S       == chart_.series
         with    == {i \in 1..Len(S) : S[i].legend # ""}
         without == {i \in 1..Len(S) : S[i].legend = ""}
     IN /\ Len(legend) = Cardinality({S[i].legend : i \in with}) + Cardinality(without)
        /\ \A i \in without :
              Cardinality({j \in 1..Len(legend) : legend[j].series = i}) = 1
        /\ \A j, k \in 1..Len(legend) :
              (j # k /\ legend[j].series \in with)
                 => S[legend[j].series].legend # S[legend[k].series].legend
        /\ \A j \in 1..Len(legend) :
              legend[j].text = (IF legend[j].series \in with
                                THEN S[legend[j].series].legend
                                ELSE S[legend[j].series].name)

\* C24, witness: a legend was rendered for a distribution chart in which two
\* series share a range, so that it has fewer lines than there are series.
LegendGroupsRanges ==
  /\ Rendered
  /\ \E i, j \in 1..Len(chart_.series) :
        i # j /\ chart_.series[i].legend # ""
        /\ chart_.series[i].legend = chart_.series[j].legend
  /\ Len(legend) >= 2
  /\ Len(legend) < Len(chart_.series)

\* C30: in the live collection of a distribution chart two entries have the
\* same colour exactly when they have the same range (legend).
LiveColourIffSameRange ==
  (query.metric = DistributionMetric /\ chart_.created) =>
     \A i, j \in 1..Len(chart_.series) :
        chart_.series[i].color = chart_.series[j].color
           <=> chart_.series[i].legend = chart_.series[j].legend

-----------------------------------------------------------------------------
(* Properties of the reconciliation (SpecRec). In a step whose ev'.op is   *)
(* "ok" and whose chart_ existed before, chart_.series is the collection   *)
(* before the reconciliation, data' the new formatted list and             *)
(* chart_'.series the collection after it.                                 *)

Names(series) == {series[i].name : i \in 1..Len(series)}

\* the entries of the collection whose name occurs in the new list
Retained(series, new) == SelectSeq(series, LAMBDA e : e.name \in Names(new))

\* entry e is entry old with its data replaced by the new data of its name
SameEntryNewData(e, old, new) ==
  /\ \E d \in 1..Len(new) : new[d].name = old.name /\ e = [old EXCEPT !.data = new[d].data]

RemovedSome(series, new) == \E i \in 1..Len(series) : series[i].name \notin Names(new)

AppendedSome(series, new) == \E d \in 1..Len(new) : new[d].name \notin Names(series)

Reconciled == ev'.op = "ok" /\ chart_.created

\* C3: after a reconciliation the names of the collection are the names of
\* the new list; every entry whose name occurs in the new list remains, with
\* its data replaced by the new data of that name; every entry whose name
\* does not occur is gone; the new entries whose names were not present
\* follow the retained entries; and changed is true whenever an entry was
\* removed or appended.
ReconcileResult ==
  [][Reconciled =>
       LET old  == chart_.series
           new  == data'
           res  == chart_'.series
           kept == Retained(old, new)
       IN /\ Names(res) = Names(new)
          /\ Len(res) >= Len(kept)
          /\ \A j \in 1..Len(kept) : SameEntryNewData(res[j], kept[j], new)
          /\ \A j \in (Len(kept) + 1)..Len(res) :
                /\ res[j].name \notin Names(old)
                /\ \E d \in 1..Len(new) : res[j] = new[d]
          /\ (RemovedSome(old, new) \/ AppendedSome(old, new)) => ev'.updateLegend]_vars

\* C4: in a reconciliation every entry whose name occurs in the new list
\* keeps its place among the retained entries, its colour and its disabled
\* state, wherever the removed entries are.
RetainedEntriesKeepState ==
  [][Reconciled =>
       LET kept == Retained(chart_.series, data')
           res  == chart_'.series
       IN /\ Len(res) >= Len(kept)
          /\ \A j \in 1..Len(kept) :
                /\ res[j].name = kept[j].name
                /\ res[j].color = kept[j].color
                /\ res[j].disabled = kept[j].disabled]_vars

\* C5: changed (updateLegend) is true exactly when an entry was removed from
\* or appended to the collection; with an empty collection and an empty new
\* list it is false.
ChangedIffMembershipChanged ==
  [][Reconciled =>
       (ev'.updateLegend <=>
          (RemovedSome(chart_.series, data') \/ AppendedSome(chart_.series, data')))]_vars

\* C6: when the new list has exactly the names of the collection, the
\* reconciliation keeps membership and order, replaces the data of every
\* entry by the new data of its name, reports changed = false and does not
\* rebuild the legend.
StableMembershipKeepsLegend ==
  [][(Reconciled /\ Names(chart_.series) = Names(data')) =>
       /\ Len(chart_'.series) = Len(chart_.series)
       /\ \A i \in 1..Len(chart_.series) :
             SameEntryNewData(chart_'.series[i], chart_.series[i], data')
       /\ ~ev'.updateLegend
       /\ legend' = legend]_vars

\* C7: no reconciliation puts the key "active" on the removal list.
ActiveNeverRemoved ==
  ev.op = "ok" => \A k \in 1..Len(ev.removeIndices) : ~ev.removeIndices[k].active

-----------------------------------------------------------------------------
(* Properties of the fetcher (SpecFetch). After a step with ev.op =        *)
(* "probe", ev.pages are the pages the finished call received, ev.reqs the *)
(* page tokens its requests carried, and ev.cb* what its callback got.     *)

AllHaveTimeseries(pages) == \A k \in 1..Len(pages) : pages[k].hasTimeseries

\* C8: a call all of whose pages carried a time-series list ended at a page
\* without a token, handed its callback the concatenation of all pages in
\* page order and no error payload, sent one request per page, the first
\* without a token and each later one with the token of the page before.
PaginationConcatenates ==
  (ev.op = "probe" /\ AllHaveTimeseries(ev.pages)) =>
     /\ ev.pages[Len(ev.pages)].nextPageToken = ""
     /\ ev.cbData = ConcatPages(ev.pages)
     /\ ~ev.cbHasResponse
     /\ Len(ev.reqs) = Len(ev.pages)
     /\ ev.reqs[1] = ""
     /\ \A k \in 2..Len(ev.reqs) : ev.reqs[k] = ev.pages[k - 1].nextPageToken

\* C8, witness: a call has delivered three non-empty pages, fetched with two
\* different tokens.
ThreePagesDelivered ==
  /\ ev.op = "probe" /\ ~ev.cbHasResponse
  /\ Len(ev.pages) = 3
  /\ Len(ev.cbData) = 3
  /\ ev.cbData[1] # ev.cbData[2]
  /\ ev.reqs[2] # ev.reqs[3]

\* the tokens of the requests follow the pages: none in the first request,
\* then the token of the page before
FollowsOwnTokens(reqs, pages) ==
  /\ reqs # <<>> => reqs[1] = ""
  /\ \A k \in 2..Len(reqs) : reqs[k] = pages[k - 1].nextPageToken

\* C21: with several calls in flight, every call has accumulated exactly the
\* entries of the pages it received itself, in their order, its copy of the
\* query holds the token of its own last page, and its requests carried its
\* own tokens; a finished call handed its callback the entries of its own
\* pages.
EachCallOwnPages ==
  /\ \A i \in 1..Len(calls) :
        LET c == calls[i] IN
        /\ c.timeseries = ConcatPages(c.pages)
        /\ TokenOf(c.localQuery) =
              (IF c.pages = <<>> THEN "" ELSE c.pages[Len(c.pages)].nextPageToken)
        /\ FollowsOwnTokens(c.reqs, c.pages)
  /\ ev.op = "probe" =>
        /\ ev.cbData = ConcatPages(SelectSeq(ev.pages, LAMBDA r : r.hasTimeseries))
        /\ FollowsOwnTokens(ev.reqs, ev.pages)

\* C21, witness: two calls are in flight, each has received a first page,
\* with different entries and different tokens.
TwoCallsInterleaved ==
  /\ Len(calls) = 2
  /\ Len(calls[1].pages) = 1 /\ Len(calls[2].pages) = 1
  /\ calls[1].timeseries # <<>> /\ calls[2].timeseries # <<>>
  /\ calls[1].timeseries # calls[2].timeseries
  /\ TokenOf(calls[1].localQuery) # TokenOf(calls[2].localQuery)

\* the ids of the calls in flight
Ids(cs) == {cs[i].id : i \in 1..Len(cs)}

\* a step in which calls leave or join the calls in flight
LeavesByCallback ==
  /\ (Ids(calls) \ Ids(calls') # {}) =>
        (/\ ev'.op = "probe"
         /\ Cardinality(Ids(calls) \ Ids(calls')) = 1
         /\ Len(calls') = Len(calls) - 1)
  /\ (ev'.op = "probe") => (Ids(calls) \ Ids(calls') # {})
  /\ (Ids(calls') \ Ids(calls) # {}) =>
        (/\ Ids(calls') \ Ids(calls) = {issued'}
         /\ issued' = issued + 1)
  /\ issued' >= issued

\* C28: a call leaves the calls in flight only in the step that invokes its
\* callback, one call per callback, and a call that has left never comes
\* back, so no request of it follows its callback and its callback runs
\* once; and when every request resolves, every call in flight is eventually
\* answered by its callback.
CallbackExactlyOnce ==
  /\ [][LeavesByCallback]_vars
  /\ \A k \in 1..MaxCalls :
        (k \in Ids(calls)) ~> (k \notin Ids(calls))

\* C28, witness: the callback of one call has run after three pages while a
\* later call is still in flight.
AnsweredWhileOtherInFlight ==
  /\ ev.op = "probe"
  /\ Len(ev.pages) = 3
  /\ calls # <<>>

\* C9: a page without the time-series field is the last page of its call:
\* no call in flight has received one, a finished call sent exactly one
\* request per page, and its callback got the response as error payload,
\* with the list of the earlier pages, exactly when its last page had no
\* time-series field.
FailureEndsPagination ==
  /\ \A i \in 1..Len(calls) : AllHaveTimeseries(calls[i].pages)
  /\ ev.op = "probe" =>
       LET n    == Len(ev.pages)
           last == ev.pages[n]
       IN /\ AllHaveTimeseries(SubSeq(ev.pages, 1, n - 1))
          /\ Len(ev.reqs) = n
          /\ ev.cbHasResponse <=> ~last.hasTimeseries
          /\ ev.cbHasResponse =>
               /\ ev.cbResponse = last
               /\ ev.cbData = ConcatPages(SubSeq(ev.pages, 1, n - 1))

\* C9, witness: a call has failed on its second page, which carried a token,
\* and its callback got the entries of the first page with the response.
FailedOnLaterPageWithToken ==
  /\ ev.op = "probe" /\ ev.cbHasResponse
  /\ Len(ev.pages) = 2
  /\ ev.cbResponse.nextPageToken # ""
  /\ ev.cbData # <<>>

\* C10: every call in flight has at most one request outstanding: it has
\* sent as many requests as it has processed pages, or one more.
OneRequestOutstanding ==
  \A i \in 1..Len(calls) :
     LET outstanding == Len(calls[i].reqs) - Len(calls[i].pages)
     IN /\ outstanding \in {0, 1}
        /\ outstanding = 1 <=> calls[i].pc = "exec"

\* C10, witness: a call has processed its first page and its second request
\* is outstanding.
SecondRequestOutstanding ==
  \E i \in 1..Len(calls) :
     /\ Len(calls[i].pages) = 1 /\ Len(calls[i].reqs) = 2
     /\ calls[i].pc = "exec"

=============================================================================
